---- MODULE Spec2Model ----
(***************************************************************************)
(* The CdrEncodingSize derive macro (src/src/lib.rs) and the build of a    *)
(* crate that uses it.                                                     *)
(*                                                                         *)
(* derive_cdr_encoding_size turns a parsed item (DeriveInput) into one     *)
(* generated `impl CdrEncodingSize for <name>` whose body is the token     *)
(* expression  Bytes(0) + <ty1>::cdr_encoding_max_size() + ...  , or it    *)
(* panics with unimplemented!() on an enum or a union.  The set of impls   *)
(* of the crate is the capability table the generated body reads: the      *)
(* compiler resolves every <ty>::cdr_encoding_max_size() against it when   *)
(* the crate is type checked, and a call evaluates the body.               *)
(***************************************************************************)
EXTENDS Integers, Sequences, FiniteSets, TLC

VARIABLES manual, impls, phase, diag, last, use

vars == <<manual, impls, phase, diag, last, use>>

None == [none |-> TRUE]

(***************************************************************************)
(* Bounds of the model.                                                    *)
(***************************************************************************)
\* longest field list of a derived structure
MaxFields == 3
\* longest field list of a structure of the multi-item crate
MaxCrateFields == 2
\* number of derive expansions in the multi-item crate
MaxDerives == 2
\* byte count of the hand-written capability of the enum type "E"
EnumManualSize == 3

(***************************************************************************)
(* Size-Model: cdr_encoding_size::CdrEncodingMaxSize.  The source names    *)
(* only the variant Bytes(n); its `+` lives in the cdr_encoding_size crate *)
(* and is taken from its description: byte counts add.  The count is a     *)
(* usize; the sums of the model stay far below its range.                  *)
(***************************************************************************)
Bytes(n) == [variant |-> "Bytes", n |-> n]

add(a, b) == Bytes(a.n + b.n)

CapTrait == "cdr_encoding_size::CdrEncodingSize"

(***************************************************************************)
(* The parsed input (syn::DeriveInput).                                    *)
(*   generics : [params : Seq([kind, name, bounds]), where_clause : Seq]   *)
(*   data     : [kind : Struct | Enum | Union, fields : [shape, list]]     *)
(*   a field  : [ident, ty]; ident is <<>> for a positional field          *)
(***************************************************************************)
TypeParam(name, bounds) == [kind |-> "Type", name |-> name, bounds |-> bounds]
LifetimeParam(name) == [kind |-> "Lifetime", name |-> name, bounds |-> <<>>]
ConstParam(name) == [kind |-> "Const", name |-> name, bounds |-> <<>>]

\* Faulty variant: stops after the first type parameter.
add_trait_bounds_first_only(generics) ==
    LET firstType == CHOOSE i \in 0..Len(generics.params) :
                        /\ i > 0 => generics.params[i].kind = "Type"
                        /\ \A j \in 1..Len(generics.params) :
                              generics.params[j].kind = "Type" => (i > 0 /\ i <= j)
    IN  [generics EXCEPT !.params =
            [i \in 1..Len(generics.params) |->
                IF i = firstType
                THEN [generics.params[i] EXCEPT !.bounds = Append(@, CapTrait)]
                ELSE generics.params[i]]]

\* Faulty variant: no `if let GenericParam::Type`, every parameter is bounded.
add_trait_bounds_every_param(generics) ==
    [generics EXCEPT !.params =
        [i \in 1..Len(generics.params) |->
            [generics.params[i] EXCEPT !.bounds = Append(@, CapTrait)]]]

\* Add the capability bound to every type parameter T; lifetime and const
\* parameters and the where-clause stay as they are.
add_trait_bounds(generics) ==
    [generics EXCEPT !.params =
        [i \in 1..Len(generics.params) |->
            IF generics.params[i].kind = "Type"
            THEN [generics.params[i] EXCEPT !.bounds = Append(@, CapTrait)]
            ELSE generics.params[i]]]

\* The literal the generated sum starts from.
ZeroLit == [tok |-> "lit", size |-> Bytes(0)]

\* `<#ty>::cdr_encoding_max_size()`, spanned at the field it comes from.
FieldCall(f, i) == [tok |-> "call", ty |-> f.ty, span |-> i]

\* Faulty variant: the iteration starts at the second field.
recurse_named_skip_first(named) ==
    [i \in 1..(IF Len(named) = 0 THEN 0 ELSE Len(named) - 1) |->
        FieldCall(named[i + 1], i + 1)]

\* fields.named.iter().map(..): one call per named field, in order.
recurse_named(named) ==
    [i \in 1..Len(named) |-> FieldCall(named[i], i)]

\* Faulty variant: the iteration starts at the second field.
recurse_unnamed_skip_first(unnamed) ==
    [i \in 1..(IF Len(unnamed) = 0 THEN 0 ELSE Len(unnamed) - 1) |->
        FieldCall(unnamed[i + 1], i + 1)]

\* fields.unnamed.iter().enumerate().map(..): one call per positional field.
recurse_unnamed(unnamed) ==
    [i \in 1..Len(unnamed) |-> FieldCall(unnamed[i], i)]

Tokens(ts) == [panicked |-> FALSE, msg |-> "", tokens |-> ts]
Panic(m) == [panicked |-> TRUE, msg |-> m, tokens |-> <<>>]

\* Faulty variant: an enum or a union is treated like a unit structure.
cdr_size_sum_enum_as_unit(data) ==
    IF data.kind = "Struct" /\ data.fields.shape = "Named"
    THEN Tokens(<<ZeroLit>> \o recurse_named(data.fields.list))
    ELSE IF data.kind = "Struct" /\ data.fields.shape = "Unnamed"
    THEN Tokens(<<ZeroLit>> \o recurse_unnamed(data.fields.list))
    ELSE Tokens(<<ZeroLit>>)

\* Faulty variant: the sum starts from Bytes(1).
cdr_size_sum_seed_one(data) ==
    IF data.kind \in {"Enum", "Union"} THEN Panic("not implemented")
    ELSE IF data.fields.shape = "Named"
    THEN Tokens(<<[tok |-> "lit", size |-> Bytes(1)]>> \o recurse_named(data.fields.list))
    ELSE IF data.fields.shape = "Unnamed"
    THEN Tokens(<<[tok |-> "lit", size |-> Bytes(1)]>> \o recurse_unnamed(data.fields.list))
    ELSE Tokens(<<[tok |-> "lit", size |-> Bytes(1)]>>)

\* Faulty variant: a type that occurs in several fields is counted once.
cdr_size_sum_distinct_types(data) ==
    IF data.kind \in {"Enum", "Union"} THEN Panic("not implemented")
    ELSE LET l == data.fields.list
             firsts == SelectSeq([i \in 1..Len(l) |-> [f |-> l[i], i |-> i]],
                           LAMBDA e : \A j \in 1..(e.i - 1) : l[j].ty # e.f.ty)
         IN  Tokens(<<ZeroLit>> \o [k \in 1..Len(firsts) |-> FieldCall(firsts[k].f, firsts[k].i)])

\* Faulty variant: the fields are ignored, every structure is Bytes(0).
cdr_size_sum_no_fields(data) ==
    IF data.kind \in {"Enum", "Union"} THEN Panic("not implemented")
    ELSE Tokens(<<ZeroLit>>)

\* Faulty variant: the last field is left out of the sum.
cdr_size_sum_drop_last(data) ==
    IF data.kind \in {"Enum", "Union"} THEN Panic("not implemented")
    ELSE LET l == data.fields.list
         IN  Tokens(<<ZeroLit>> \o [i \in 1..(IF Len(l) = 0 THEN 0 ELSE Len(l) - 1) |->
                                        FieldCall(l[i], i)])

\* Generate the expression that sums the size of each field.
cdr_size_sum(data) ==
    CASE data.kind = "Struct" ->
            ( CASE data.fields.shape = "Named" ->
                      Tokens(<<ZeroLit>> \o recurse_named(data.fields.list))
                [] data.fields.shape = "Unnamed" ->
                      Tokens(<<ZeroLit>> \o recurse_unnamed(data.fields.list))
                [] data.fields.shape = "Unit" ->
                      Tokens(<<ZeroLit>>) )
      [] data.kind \in {"Enum", "Union"} -> Panic("not implemented")

\* generics.split_for_impl(): the parameters with their bounds, the
\* parameter names, and the where-clause as it was.
split_for_impl(generics) ==
    [impl_generics |-> generics.params,
     ty_generics   |-> [i \in 1..Len(generics.params) |-> generics.params[i].name],
     where_clause  |-> generics.where_clause]

Expanded(name, split, sum) ==
    [trait         |-> CapTrait,
     for           |-> name,
     impl_generics |-> split.impl_generics,
     ty_generics   |-> split.ty_generics,
     where_clause  |-> split.where_clause,
     body          |-> sum.tokens]

\* Faulty variant: the impl is generated for the first field's type.
derive_cdr_encoding_size_for_field_type(input) ==
    LET name == IF input.data.kind = "Struct" /\ Len(input.data.fields.list) > 0
                THEN input.data.fields.list[1].ty ELSE input.ident
        split == split_for_impl(add_trait_bounds(input.generics))
        sum == cdr_size_sum(input.data)
    IN  IF sum.panicked
        THEN [panicked |-> TRUE, msg |-> sum.msg, item |-> None]
        ELSE [panicked |-> FALSE, msg |-> "", item |-> Expanded(name, split, sum)]

\* The derive entry point: the generated impl, or the panic of cdr_size_sum.
derive_cdr_encoding_size(input) ==
    LET name == input.ident
        split == split_for_impl(add_trait_bounds(input.generics))
        sum == cdr_size_sum(input.data)
    IN  IF sum.panicked
        THEN [panicked |-> TRUE, msg |-> sum.msg, item |-> None]
        ELSE [panicked |-> FALSE, msg |-> "", item |-> Expanded(name, split, sum)]

(***************************************************************************)
(* The crate the generated impls land in.                                  *)
(*   manual : the hand-written impls (type |-> Size-Model)                 *)
(*   impls  : the impls the derive generated, in expansion order           *)
(*   phase  : "expanding" | "built" | "failed"                             *)
(*   diag   : the build error, "" while there is none                      *)
(*   last   : the last macro invocation [seq, input, panicked]             *)
(*   use    : the last call  <for<args>>::cdr_encoding_max_size()          *)
(***************************************************************************)
Range(s) == {s[i] : i \in 1..Len(s)}

TypeParamNames(item) ==
    {p.name : p \in {q \in Range(item.impl_generics) : q.kind = "Type"}}

\* The type parameters the impl header bounds by the capability.
BoundedParams(item) ==
    {p.name : p \in {q \in Range(item.impl_generics) :
                        q.kind = "Type" /\ CapTrait \in Range(q.bounds)}}
    \cup {w.ty : w \in {v \in Range(item.where_clause) : v.bound = CapTrait}}

ImplsFor(ty) == {i \in 1..Len(impls) : impls[i].for = ty}

\* A concrete type has the capability: a hand-written or a generated impl.
HasImpl(ty) ==
    \/ ty \in DOMAIN manual
    \/ \E i \in ImplsFor(ty) : TypeParamNames(impls[i]) = {}

\* `<ty>::cdr_encoding_max_size()` resolves inside the impl `item`.
Resolves(term, item) ==
    \/ term.tok = "lit"
    \/ /\ term.tok = "call"
       /\ IF term.ty \in TypeParamNames(item)
          THEN term.ty \in BoundedParams(item)
          ELSE HasImpl(term.ty)

WellTyped(item) == \A k \in 1..Len(item.body) : Resolves(item.body[k], item)

\* One impl of the trait per type.
Coherent ==
    /\ \A i, j \in 1..Len(impls) : impls[i].for = impls[j].for => i = j
    /\ \A i \in 1..Len(impls) : impls[i].for \notin DOMAIN manual

RECURSIVE SizeOf(_, _)
RECURSIVE EvalFrom(_, _, _, _)

\* The value of  tokens[1] + tokens[2] + ...  , left to right.
EvalFrom(acc, tokens, k, args) ==
    IF k > Len(tokens) THEN acc
    ELSE EvalFrom(add(acc, IF tokens[k].tok = "lit" THEN tokens[k].size
                           ELSE SizeOf(tokens[k].ty, args)),
                  tokens, k + 1, args)

Eval(tokens, args) ==
    EvalFrom(IF tokens[1].tok = "lit" THEN tokens[1].size
             ELSE SizeOf(tokens[1].ty, args), tokens, 2, args)

\* What <ty>::cdr_encoding_max_size() returns; args binds type parameters.
SizeOf(ty, args) ==
    IF ty \in DOMAIN args THEN SizeOf(args[ty], <<>>)
    ELSE IF ty \in DOMAIN manual THEN manual[ty]
    ELSE Eval(impls[CHOOSE i \in ImplsFor(ty) : TRUE].body, <<>>)

(***************************************************************************)
(* Inputs of the derive.                                                   *)
(***************************************************************************)
Primitives == {"u8", "u16", "u32", "u64", "u128"}

PrimImpls ==
    [t \in Primitives |->
        CASE t = "u8" -> Bytes(1) [] t = "u16" -> Bytes(2) [] t = "u32" -> Bytes(4)
          [] t = "u64" -> Bytes(8) [] t = "u128" -> Bytes(16)]

\* "E" is an enum (with a hand-written impl or none, see Init), "X" a type
\* nobody gave the capability.
ConcreteTypes == Primitives \cup {"E", "X"}
GenericFieldTypes == {"T", "u8", "X"}
ArgTypes == {"u128", "u8", "E", "X"}
FieldPrefixes == {"f", "g"}

SeqsUpTo(S, n) == UNION {[1..k -> S] : k \in 0..n}

NamedFields(types, prefix) ==
    [shape |-> "Named",
     list |-> [i \in 1..Len(types) |-> [ident |-> <<prefix, i>>, ty |-> types[i]]]]

UnnamedFields(types) ==
    [shape |-> "Unnamed",
     list |-> [i \in 1..Len(types) |-> [ident |-> <<>>, ty |-> types[i]]]]

UnitFields == [shape |-> "Unit", list |-> <<>>]

Shapes(typeLists, prefixes) ==
    {NamedFields(t, p) : t \in typeLists, p \in prefixes}
    \cup {UnnamedFields(t) : t \in typeLists}
    \cup {UnitFields}

NoGenerics == [params |-> <<>>, where_clause |-> <<>>]

GenericsSet ==
    { [params |-> <<TypeParam("T", <<>>)>>, where_clause |-> <<>>],
      [params |-> <<TypeParam("T", <<>>), TypeParam("U", <<>>)>>, where_clause |-> <<>>],
      [params |-> <<LifetimeParam("'a"), TypeParam("T", <<"Sized">>), ConstParam("N")>>,
       where_clause |-> <<[ty |-> "T", bound |-> "Sized"]>>] }

StructInput(ident, generics, fields) ==
    [ident |-> ident, generics |-> generics,
     data |-> [kind |-> "Struct", fields |-> fields]]

VariantInputs ==
    {[ident |-> k[1], generics |-> g, data |-> [kind |-> k[2], fields |-> f]] :
        k \in {<<"E", "Enum">>, <<"U", "Union">>},
        g \in {NoGenerics} \cup GenericsSet,
        f \in {UnitFields, NamedFields(<<"u8">>, "f"), UnnamedFields(<<"X", "u8">>)}}

Inputs ==
    {StructInput("S", NoGenerics, f) :
        f \in Shapes(SeqsUpTo(ConcreteTypes, MaxFields), FieldPrefixes)}
    \cup {StructInput("G", g, f) :
        g \in GenericsSet,
        f \in Shapes(SeqsUpTo(GenericFieldTypes, MaxFields), FieldPrefixes)}
    \cup VariantInputs

\* Items of a crate whose structures nest: S2 may hold S1.
CrateInputs ==
    {StructInput("S1", NoGenerics, f) :
        f \in Shapes(SeqsUpTo({"u32"}, MaxCrateFields), {"f"})}
    \cup {StructInput("S2", NoGenerics, f) :
        f \in Shapes(SeqsUpTo({"u32", "S1"}, MaxCrateFields), {"f"})}
    \cup {[ident |-> "E", generics |-> NoGenerics,
           data |-> [kind |-> "Enum", fields |-> UnitFields]]}

(***************************************************************************)
(* The build.                                                              *)
(***************************************************************************)
Init ==
    /\ manual \in {PrimImpls, PrimImpls @@ ("E" :> Bytes(EnumManualSize))}
    /\ impls = <<>>
    /\ phase = "expanding"
    /\ diag = ""
    /\ last = None
    /\ use = None

Seq0 == IF last = None THEN 0 ELSE last.seq

\* The compiler expands one #[derive(CdrEncodingSize)].
Derive(input) ==
    /\ phase = "expanding"
    /\ LET r == derive_cdr_encoding_size(input)
       IN  /\ last' = [seq |-> Seq0 + 1, input |-> input, panicked |-> r.panicked]
           /\ IF r.panicked
              THEN /\ phase' = "failed"
                   /\ diag' = r.msg
                   /\ impls' = impls
              ELSE /\ impls' = Append(impls, r.item)
                   /\ UNCHANGED <<phase, diag>>
    /\ UNCHANGED <<manual, use>>

\* The compiler checks the expanded crate.
TypeCheck ==
    /\ phase = "expanding"
    /\ IF ~Coherent
       THEN phase' = "failed" /\ diag' = "conflicting implementations"
       ELSE IF \E i \in 1..Len(impls) : ~WellTyped(impls[i])
       THEN phase' = "failed" /\ diag' = "trait not implemented"
       ELSE phase' = "built" /\ diag' = ""
    /\ UNCHANGED <<manual, impls, last, use>>

\* A call  <for<args>>::cdr_encoding_max_size()  of a generated impl: the
\* compiler checks the bounds of the impl header against the arguments (the
\* bound Sized of the inputs holds of every type here), then the body runs.
Instantiate(i, args) ==
    /\ phase = "built"
    /\ LET item == impls[i]
       IN  IF \A p \in BoundedParams(item) \cap TypeParamNames(item) : HasImpl(args[p])
           THEN /\ use' = [item |-> i, args |-> args, result |-> "value",
                           size |-> Eval(item.body, args)]
                /\ UNCHANGED <<phase, diag>>
           ELSE /\ use' = [item |-> i, args |-> args, result |-> "rejected",
                           size |-> None]
                /\ phase' = "failed"
                /\ diag' = "trait bound not satisfied"
    /\ UNCHANGED <<manual, impls, last>>

InstantiateAny ==
    \E i \in 1..Len(impls) :
        \E args \in [TypeParamNames(impls[i]) -> ArgTypes] : Instantiate(i, args)

Next ==
    \/ \E input \in Inputs : impls = <<>> /\ Derive(input)
    \/ TypeCheck
    \/ InstantiateAny

Spec == Init /\ [][Next]_vars

NextCrate ==
    \/ \E input \in CrateInputs : Len(impls) < MaxDerives /\ Derive(input)
    \/ TypeCheck
    \/ InstantiateAny

SpecCrate == Init /\ [][NextCrate]_vars

(***************************************************************************)
(* What the properties below read off the state.                           *)
(***************************************************************************)
LastStruct == last # None /\ last.input.data.kind = "Struct"

Returned == use # None /\ use.result = "value"

FieldList == last.input.data.fields.list

FieldTypes == [i \in 1..Len(FieldList) |-> FieldList[i].ty]

InputTypeParams ==
    {p.name : p \in {q \in Range(last.input.generics.params) : q.kind = "Type"}}

\* The field types of the instantiation: type parameters replaced by arguments.
InstFieldTypes(args) ==
    {IF t \in DOMAIN args THEN args[t] ELSE t : t \in Range(FieldTypes)}

\* Each field's own Size-Model, in declaration order.
FieldSizes(args) == [i \in 1..Len(FieldList) |-> SizeOf(FieldList[i].ty, args)]

RECURSIVE AddAll(_, _)
AddAll(acc, sizes) ==
    IF sizes = <<>> THEN acc ELSE AddAll(add(acc, Head(sizes)), Tail(sizes))

\* The Size-Model the derive gives another structure, under the same table.
StructSize(input, args) == Eval(derive_cdr_encoding_size(input).item.body, args)

WithFields(fields) == [last.input EXCEPT !.data.fields = fields]

Perms(n) == {f \in [1..n -> 1..n] : \A i, j \in 1..n : f[i] = f[j] => i = j}

Permuted(perm) ==
    [last.input EXCEPT !.data.fields.list = [i \in 1..Len(FieldList) |-> FieldList[perm[i]]]]

(***************************************************************************)
(* C1.  The Size-Model of a structure with named or positional fields is   *)
(* Bytes(0) combined by add with each field's Size-Model, once per field   *)
(* in declaration order; fields of sizes 1, 2, 4 give Bytes(7) and fields  *)
(* of sizes 8, 4 give Bytes(12).                                           *)
(***************************************************************************)
C1_SumOfFields ==
    Returned =>
        /\ use.size = AddAll(Bytes(0), FieldSizes(use.args))
        /\ FieldTypes = <<"u8", "u16", "u32">> => use.size = Bytes(7)
        /\ FieldTypes = <<"u64", "u32">> => use.size = Bytes(12)
        /\ FieldTypes = <<"u32", "u32", "u32">> => use.size = Bytes(12)

C1_Witness ==
    /\ Returned
    /\ FieldTypes = <<"u8", "u16", "u32">>
    /\ use.size = Bytes(7)

(***************************************************************************)
(* C2.  A structure with no fields has Size-Model Bytes(0): the unit shape *)
(* and the named or positional shape with an empty field list alike.       *)
(***************************************************************************)
C2_NoFieldsZero ==
    (Returned /\ Len(FieldList) = 0) => use.size = Bytes(0)

C2_Witness ==
    /\ Returned
    /\ last.input.data.fields.shape = "Named"
    /\ FieldList = <<>>
    /\ use.size = Bytes(0)

(***************************************************************************)
(* C3.  The derive of an enum or a union fails with "not implemented" and  *)
(* leaves nothing behind: the build has failed, no impl was generated for  *)
(* the item and no size was ever returned, whatever its name, generics or  *)
(* members.                                                                *)
(***************************************************************************)
C3_VariantNotImplemented ==
    (last # None /\ last.input.data.kind \in {"Enum", "Union"}) =>
        /\ last.panicked
        /\ phase = "failed"
        /\ diag = "not implemented"
        /\ impls = <<>>
        /\ use = None

C3_Witness ==
    /\ last # None
    /\ last.input.data.kind = "Union"
    /\ last.input.generics.params # <<>>
    /\ last.input.data.fields.list # <<>>
    /\ phase = "failed"

(***************************************************************************)
(* C4.  As stated: a structure one of whose fields has the enum type never *)
(* returns a Size-Model, however the enum got its capability.              *)
(***************************************************************************)
C4_EnumFieldNeverReturns ==
    ~(Returned /\ "E" \in InstFieldTypes(use.args))

(***************************************************************************)
(* C4, amended.  A structure one of whose fields has an enum type that has *)
(* no capability (the derive never gives it one) is never built and never  *)
(* returns a Size-Model; an instantiation that binds such an enum to a     *)
(* type parameter is rejected.                                             *)
(***************************************************************************)
C4_EnumFieldWithoutCapabilityFails ==
    /\ (LastStruct /\ "E" \in Range(FieldTypes) /\ "E" \notin DOMAIN manual) =>
            (phase # "built" /\ use = None)
    /\ (use # None /\ "E" \in InstFieldTypes(use.args) /\ "E" \notin DOMAIN manual) =>
            (use.result = "rejected" /\ phase = "failed")

C4_Witness ==
    /\ LastStruct
    /\ "E" \in Range(FieldTypes)
    /\ "u8" \in Range(FieldTypes)
    /\ "E" \notin DOMAIN manual
    /\ phase = "failed"
    /\ diag = "trait not implemented"

(***************************************************************************)
(* C5.  A generic structure requires the capability of every type          *)
(* parameter: an instantiation whose arguments all have it returns the sum *)
(* of the field sizes (one field of type T with a Bytes(16) argument gives *)
(* Bytes(16)); one with an argument that lacks it is rejected by the build *)
(* and returns nothing.                                                    *)
(***************************************************************************)
C5_GenericBounds ==
    (use # None /\ InputTypeParams # {}) =>
        /\ DOMAIN use.args = InputTypeParams
        /\ (\E p \in InputTypeParams : ~HasImpl(use.args[p])) =>
                (use.result = "rejected" /\ use.size = None /\ phase = "failed")
        /\ (\A p \in InputTypeParams : HasImpl(use.args[p])) =>
                /\ use.result = "value"
                /\ use.size = AddAll(Bytes(0), FieldSizes(use.args))
                /\ (FieldTypes = <<"T">> /\ use.args["T"] = "u128") => use.size = Bytes(16)

C5_Witness ==
    /\ use # None
    /\ InputTypeParams = {"T", "U"}
    /\ FieldTypes = <<"T">>
    /\ use.args["T"] = "u128"
    /\ use.args["U"] = "X"
    /\ use.result = "rejected"
    /\ phase = "failed"

(***************************************************************************)
(* C6.  A structure with a field whose type has no capability is never     *)
(* built: no size is returned for it, neither a default for that field nor *)
(* the sum of the other fields.                                            *)
(***************************************************************************)
C6_MissingCapabilityFails ==
    (LastStruct /\ \E t \in Range(FieldTypes) \ InputTypeParams : ~HasImpl(t)) =>
        (phase # "built" /\ use = None)

C6_Witness ==
    /\ LastStruct
    /\ FieldTypes = <<"u32", "X">>
    /\ phase = "failed"
    /\ diag = "trait not implemented"
    /\ use = None

(***************************************************************************)
(* C7.  Permuting the field declaration order does not change the result:  *)
(* the structure with the same fields in any other order gets the same     *)
(* Size-Model.                                                             *)
(***************************************************************************)
C7_PermutationInvariant ==
    Returned =>
        \A perm \in Perms(Len(FieldList)) : StructSize(Permuted(perm), use.args) = use.size

C7_Witness ==
    /\ Returned
    /\ last.input.data.fields.shape = "Named"
    /\ FieldTypes = <<"u64", "u8", "u32">>
    /\ use.size = Bytes(13)

(***************************************************************************)
(* C9.  Named and positional fields use the same algorithm: the structure  *)
(* with the same field types in the same order gets the same Size-Model in *)
(* either shape, whatever the field names.                                 *)
(***************************************************************************)
C9_NamedEqualsPositional ==
    (Returned /\ last.input.data.fields.shape # "Unit") =>
        /\ StructSize(WithFields(UnnamedFields(FieldTypes)), use.args) = use.size
        /\ \A p \in FieldPrefixes :
              StructSize(WithFields(NamedFields(FieldTypes, p)), use.args) = use.size

C9_Witness ==
    /\ Returned
    /\ last.input.data.fields.shape = "Named"
    /\ FieldTypes = <<"u16", "u64">>
    /\ use.size = Bytes(10)

(***************************************************************************)
(* C10.  add_trait_bounds changes type parameters only: the generated impl *)
(* has the input's parameters in the same number and order, every lifetime *)
(* and const parameter as it was, every type parameter with the capability *)
(* bound appended after the bounds it had, and the where-clause unchanged. *)
(***************************************************************************)
C10_OnlyTypeParamsBounded ==
    (LastStruct /\ impls # <<>>) =>
        LET g == last.input.generics
            item == impls[Len(impls)]
        IN  /\ Len(item.impl_generics) = Len(g.params)
            /\ \A i \in 1..Len(g.params) :
                  IF g.params[i].kind = "Type"
                  THEN /\ item.impl_generics[i].kind = "Type"
                       /\ item.impl_generics[i].name = g.params[i].name
                       /\ item.impl_generics[i].bounds = g.params[i].bounds \o <<CapTrait>>
                  ELSE item.impl_generics[i] = g.params[i]
            /\ item.where_clause = g.where_clause

C10_Witness ==
    /\ LastStruct
    /\ impls # <<>>
    /\ \E i \in 1..Len(last.input.generics.params) :
          last.input.generics.params[i].kind = "Lifetime"
    /\ \E i \in 1..Len(last.input.generics.params) :
          last.input.generics.params[i].kind = "Const"
    /\ \E i \in 1..Len(last.input.generics.params) :
          /\ last.input.generics.params[i].kind = "Type"
          /\ last.input.generics.params[i].bounds # <<>>
          /\ last.input.generics.params[i].name \notin Range(FieldTypes)
    /\ last.input.generics.where_clause # <<>>

(***************************************************************************)
(* C8.  The table of generated impls only grows: every step keeps each     *)
(* entry as it is, a derive of a structure adds exactly one entry, bound   *)
(* to that structure's name, no other step adds any, and a crate that was  *)
(* built holds at most one entry per type (two are a build error).         *)
(***************************************************************************)
C8_RegisteredOnce ==
    /\ [][ /\ \A i \in 1..Len(impls) : i <= Len(impls') /\ impls'[i] = impls[i]
           /\ manual' = manual
           /\ IF last' # last
              THEN IF last'.panicked
                   THEN impls' = impls
                   ELSE /\ Len(impls') = Len(impls) + 1
                        /\ impls'[Len(impls')].for = last'.input.ident
              ELSE impls' = impls ]_vars
    /\ [](phase = "built" =>
            Cardinality({impls[i].for : i \in 1..Len(impls)}) = Len(impls))

C8_Witness ==
    /\ Len(impls) = 2
    /\ impls[1].for = impls[2].for
    /\ impls[1] # impls[2]
    /\ phase = "failed"
    /\ diag = "conflicting implementations"

====
